---------------------------- MODULE Spec2Model ----------------------------
(***************************************************************************)
(* Model of the SGF game-record extractor of KataGoVisualizer              *)
(* (go_attack_utils/src/sgf_parser/game_info.py) and of the batch reader   *)
(* built on it.                                                            *)
(*                                                                         *)
(* Python strings are sequences of one-character strings.  Python values   *)
(* are tagged records [t |-> tag, v |-> payload]; the tags are "none",     *)
(* "str", "int", "float", "bool" and "tuple".  A float is kept exactly as  *)
(* an integer number of tenths (every numeric text fed to float() below    *)
(* has at most one fractional digit).                                      *)
(***************************************************************************)
EXTENDS Integers, Sequences, FiniteSets, TLC

(***************************************************************************)
(* Python values                                                           *)
(***************************************************************************)
None == [t |-> "none", v |-> 0]
StrV(s) == [t |-> "str", v |-> s]
IntV(n) == [t |-> "int", v |-> n]
FloatV(tenths) == [t |-> "float", v |-> tenths]
BoolV(b) == [t |-> "bool", v |-> b]
Tuple1(x) == [t |-> "tuple", v |-> <<x>>]
ListV(items) == [t |-> "list", v |-> items]

\* Python's == on the values used here: values of different types differ.
PyEq(a, b) == a.t = b.t /\ a.v = b.v

IsNone(a) == a.t = "none"

\* Python truthiness of None, str, int and float values.
Truthy(a) ==
  CASE a.t = "none" -> FALSE
    [] a.t = "str" -> Len(a.v) > 0
    [] a.t = "int" -> a.v # 0
    [] a.t = "float" -> a.v # 0
    [] a.t = "bool" -> a.v
    [] OTHER -> Len(a.v) > 0

(***************************************************************************)
(* Characters and strings                                                  *)
(***************************************************************************)
Digits == <<"0", "1", "2", "3", "4", "5", "6", "7", "8", "9">>
UpperChars == <<"A", "B", "C", "D", "E", "F", "G", "H", "I", "J", "K", "L", "M",
                "N", "O", "P", "Q", "R", "S", "T", "U", "V", "W", "X", "Y", "Z">>
LowerChars == <<"a", "b", "c", "d", "e", "f", "g", "h", "i", "j", "k", "l", "m",
                "n", "o", "p", "q", "r", "s", "t", "u", "v", "w", "x", "y", "z">>

DigitSet == {Digits[k] : k \in 1..Len(Digits)}
UpperSet == {UpperChars[k] : k \in 1..Len(UpperChars)}

IsDigit(c) == c \in DigitSet
DigitVal(c) == (CHOOSE k \in 1..Len(Digits) : Digits[k] = c) - 1

\* str.lower() on one character, then on a string.
LowerChar(c) ==
  IF c \in UpperSet
    THEN LowerChars[CHOOSE k \in 1..Len(UpperChars) : UpperChars[k] = c]
    ELSE c
Lower(s) == [k \in 1..Len(s) |-> LowerChar(s[k])]

\* s[i..] starts with the literal p.
StartsWithAt(s, i, p) ==
  /\ i + Len(p) - 1 <= Len(s)
  /\ \A k \in 1..Len(p) : s[i + k - 1] = p[k]

\* Python's `p in s` on strings.
Contains(s, p) == \E i \in 1..(Len(s) + 1) : StartsWithAt(s, i, p)

\* Index of the last occurrence of character c in s, 0 when there is none.
LastIndexOf(s, c) ==
  IF \E k \in 1..Len(s) : s[k] = c
    THEN CHOOSE k \in 1..Len(s) : s[k] = c /\ \A j \in (k + 1)..Len(s) : s[j] # c
    ELSE 0

\* s.split(c)[-1]: what follows the last c, the whole string when c is absent.
SplitLast(s, c) == SubSeq(s, LastIndexOf(s, c) + 1, Len(s))

\* len(pattern.findall(s)) for a literal p that cannot overlap itself (B[], W[],
\* B[tt], W[tt] and ; cannot): the number of places where p occurs in s.
CountOccurrences(s, p) == Cardinality({i \in 1..Len(s) : StartsWithAt(s, i, p)})

\* int() of a string of decimal digits.
RECURSIVE DecimalValue(_)
DecimalValue(s) ==
  IF Len(s) = 0 THEN 0
  ELSE 10 * DecimalValue(SubSeq(s, 1, Len(s) - 1)) + DigitVal(s[Len(s)])

\* str.isdecimal()
IsDecimal(s) == Len(s) > 0 /\ \A k \in 1..Len(s) : IsDigit(s[k])

\* str() of a non-negative int.
RECURSIVE NatToStr(_)
NatToStr(n) ==
  IF n < 10 THEN <<Digits[n + 1]>>
  ELSE Append(NatToStr(n \div 10), Digits[(n % 10) + 1])

\* str(subject) for the subjects extract_re is given: str, int or None.
PyStr(a) ==
  CASE a.t = "str" -> a.v
    [] a.t = "int" -> IF a.v < 0 THEN <<"-">> \o NatToStr(-a.v) ELSE NatToStr(a.v)
    [] OTHER -> <<"N", "o", "n", "e">>

(***************************************************************************)
(* Regular expressions.  Every pattern the modelled code searches for has  *)
(* the shape  <literal prefix> ( <class>+ ) <literal suffix>  with one     *)
(* capture group; cls is "digit" for [0-9] and "notclose" for [^]].        *)
(***************************************************************************)
Pattern(pre, cls, post) == [pre |-> pre, cls |-> cls, post |-> post]

InClass(c, cls) == IF cls = "digit" THEN IsDigit(c) ELSE c # "]"

\* Length of the longest run of class characters of s starting at index j.
MaxRun(s, j, cls) ==
  CHOOSE r \in 0..(Len(s) - j + 1) :
    /\ \A k \in j..(j + r - 1) : InClass(s[k], cls)
    /\ (j + r > Len(s) \/ ~InClass(s[j + r], cls))

\* The capture lengths with which the pattern, its prefix matched at start index
\* i, matches there.
MatchLens(pat, s, i) ==
  LET j == i + Len(pat.pre)
  IN {k \in 1..MaxRun(s, j, pat.cls) : StartsWithAt(s, j + k, pat.post)}

NoMatch == [found |-> FALSE, group |-> <<>>]

\* re.search: the leftmost start that matches, its group taken greedily.
Search(pat, s) ==
  LET first == pat.pre[1]
      starts == {i \in 1..Len(s) :
                   s[i] = first /\ StartsWithAt(s, i, pat.pre) /\ MatchLens(pat, s, i) # {}}
  IN IF starts = {} THEN NoMatch
     ELSE LET i == CHOOSE x \in starts : \A y \in starts : x <= y
              lens == MatchLens(pat, s, i)
              k == CHOOSE x \in lens : \A y \in lens : y <= x
              j == i + Len(pat.pre)
          IN [found |-> TRUE, group |-> SubSeq(s, j, j + k - 1)]

extract_re(pat, subject) ==
  LET match == Search(pat, PyStr(subject))
  IN IF match.found
       THEN IF IsDecimal(match.group) THEN IntV(DecimalValue(match.group))
            ELSE StrV(match.group)
       ELSE None

extract_prop(property_name, sgf_str) ==
  extract_re(Pattern(property_name \o <<"[">>, "notclose", <<>>), sgf_str)

\* The module-level compiled patterns, as the literals they match.
num_b_pass_pattern == <<"B", "[", "]">>
num_w_pass_pattern == <<"W", "[", "]">>
semicolon_pattern == <<";">>

(***************************************************************************)
(* float(): accepts [+-]digits[.digit] here; anything else raises          *)
(* ValueError.  The value is in tenths.                                    *)
(***************************************************************************)
Unsigned(s) ==
  IF Len(s) > 0 /\ s[1] \in {"+", "-"} THEN SubSeq(s, 2, Len(s)) ELSE s

IsFloatText(s) ==
  LET u == Unsigned(s)
      dot == LastIndexOf(u, ".")
  IN IF dot = 0 THEN IsDecimal(u)
     ELSE /\ IsDecimal(SubSeq(u, 1, dot - 1))
          /\ Len(u) - dot <= 1
          /\ \A k \in (dot + 1)..Len(u) : IsDigit(u[k])

FloatOfText(s) ==
  LET u == Unsigned(s)
      dot == LastIndexOf(u, ".")
      whole == IF dot = 0 THEN u ELSE SubSeq(u, 1, dot - 1)
      frac == IF dot = 0 \/ dot = Len(u) THEN 0 ELSE DigitVal(u[dot + 1])
      mag == 10 * DecimalValue(whole) + frac
  IN FloatV(IF Len(s) > 0 /\ s[1] = "-" THEN -mag ELSE mag)

\* float(x) for x a str or an int: can it be taken, and its value.
CanFloat(x) == x.t = "int" \/ (x.t = "str" /\ IsFloatText(x.v))
PyFloat(x) == IF x.t = "int" THEN FloatV(10 * x.v) ELSE FloatOfText(x.v)

\* Arithmetic on int and float values.
Tenths(x) == IF x.t = "int" THEN 10 * x.v ELSE x.v
Times(x, k) == [t |-> x.t, v |-> x.v * k]
Minus(x, y) ==
  IF x.t = "int" /\ y.t = "int" THEN IntV(x.v - y.v) ELSE FloatV(Tenths(x) - Tenths(y))
Neg(x) == [t |-> x.t, v |-> -x.v]

(***************************************************************************)
(* Literals of game_info.py                                                *)
(***************************************************************************)
DEFAULT_ADVERSARY_SUBSTRINGS == <<<<"a", "d", "v">>>>
DEFAULT_VICTIM_SUBSTRINGS == <<<<"v", "i", "c", "t", "i", "m">>, <<"b", "o", "t">>>>

B == StrV(<<"b">>)
W == StrV(<<"w">>)
L_R == <<"R">>
L_Resign == <<"R", "e", "s", "i", "g", "n">>
L_eval == <<"e", "v", "a", "l">>
L_selfplay == <<"s", "e", "l", "f", "p", "l", "a", "y">>
L_gatekeepersgf == <<"g", "a", "t", "e", "k", "e", "e", "p", "e", "r", "s", "g", "f">>

Range(f) == {f[k] : k \in DOMAIN f}

\* "/".join(parts[-3:])
RECURSIVE JoinSlash(_)
JoinSlash(parts) ==
  IF Len(parts) = 0 THEN <<>>
  ELSE IF Len(parts) = 1 THEN parts[1]
  ELSE parts[1] \o <<"/">> \o JoinSlash(Tail(parts))
LastThree(parts) ==
  IF Len(parts) <= 3 THEN parts ELSE SubSeq(parts, Len(parts) - 2, Len(parts))

\* any(x in name.lower() for x in substrings)
NameHas(name, substrings) ==
  \E x \in Range(substrings) : Contains(Lower(name.v), x)

\* result.split("+")[-1] if "+" in result else result.split(" ")[-1]
WinScoreStr(result) ==
  IF Contains(result.v, <<"+">>) THEN SplitLast(result.v, "+")
  ELSE SplitLast(result.v, " ")

\* The lookup with one entry mistyped: {"b": "w", "w": "w"}.
OtherColor_Mistyped(color) == W

\* {"b": "w", "w": "b"}[victim_color]
OtherColor(color) == IF color = B THEN W ELSE B

\* {"b": b_name, "w": w_name}[color]
ByColor(color, b_value, w_value) == IF color = B THEN b_value ELSE w_value

\* `if win_score:` in place of `if win_score is not None:`.
HasWinScore_Truthy(win_score) == Truthy(win_score)

\* win_score is not None
HasWinScore(win_score) == ~IsNone(win_score)

\* x or y or 0, for the step and sample counts
OrElse(x, y) == IF Truthy(x) THEN x ELSE y

\* The pass count of one colour: a one-element tuple, from the trailing comma.
PassCount(sgf_str, board_size, empty_pattern, tt_pattern) ==
  Tuple1(IntV(CountOccurrences(sgf_str, empty_pattern)
              + (IF board_size.t = "int" /\ board_size.v <= 19
                   THEN CountOccurrences(sgf_str, tt_pattern)
                   ELSE 0)))

Raised(e) == [exc |-> e, info |-> <<>>]
Returned(info) == [exc |-> "none", info |-> info]

(***************************************************************************)
(* parse_game_str_to_dict, in the order of its statements.  Each stage     *)
(* takes the values the statements before it computed and yields either    *)
(* Raised(exception name) or a record of values with exc = "none".  The    *)
(* returned record carries the role, outcome, provenance and pass-count    *)
(* fields; the modelled lines hold no RU, C, BR, WR or HA property, whose  *)
(* fields are left out.  path is the tuple of its parts.                   *)
(***************************************************************************)

\* Lines 191-200: the raw properties.
Extracted(sgf_str) ==
  [exc |-> "none",
   board_size |-> extract_prop(<<"S", "Z">>, StrV(sgf_str)),
   b_name |-> extract_prop(<<"P", "B">>, StrV(sgf_str)),
   w_name |-> extract_prop(<<"P", "W">>, StrV(sgf_str)),
   result |-> extract_prop(<<"R", "E">>, StrV(sgf_str)),
   komi |-> extract_prop(<<"K", "M">>, StrV(sgf_str))]

\* Lines 201-216: komi as a float, the winner and the win score.
Scored(e) ==
  LET has_result == Truthy(e.result)
      token == WinScoreStr(e.result)
      resigned == token = L_R \/ token = L_Resign
  IN \* line 201: float(komi) on a truthy komi
     IF Truthy(e.komi) /\ ~CanFloat(e.komi) THEN Raised("ValueError")
     \* line 202: result[0] on a truthy result that is an int
     ELSE IF has_result /\ e.result.t # "str" THEN Raised("TypeError")
     \* line 216: float(win_score_str)
     ELSE IF has_result /\ ~resigned /\ ~IsFloatText(token) THEN Raised("ValueError")
     ELSE [e EXCEPT !.komi = IF Truthy(e.komi) THEN PyFloat(e.komi) ELSE e.komi] @@
          [win_color |-> IF has_result THEN StrV(<<LowerChar(e.result.v[1])>>) ELSE None,
           is_resignation |-> has_result /\ resigned,
           win_score |-> IF has_result /\ ~resigned THEN FloatOfText(token) ELSE None]

\* Lines 240-251: the victim color, from the argument or from the names.
Resolved(s, victim_color_arg, no_victim_okay, adversary_substrings, victim_substrings) ==
  IF s.exc # "none" THEN s
  \* lines 241-244: name.lower() on a name that is None or an int
  ELSE IF IsNone(victim_color_arg) /\ (s.b_name.t # "str" \/ s.w_name.t # "str")
    THEN Raised("AttributeError")
  ELSE
    LET victim_is_black ==
          NameHas(s.b_name, victim_substrings) \/ NameHas(s.w_name, adversary_substrings)
        victim_is_white ==
          NameHas(s.w_name, victim_substrings) \/ NameHas(s.b_name, adversary_substrings)
        victim_color ==
          IF ~IsNone(victim_color_arg) THEN victim_color_arg
          ELSE IF victim_is_black # victim_is_white
            THEN (IF victim_is_black THEN B ELSE W)
          ELSE None
    IN IF ~(no_victim_okay \/ ~IsNone(victim_color)) THEN Raised("AssertionError")
       ELSE s @@ [victim_color |-> victim_color]

\* Lines 253-307: what is derived once the victim color is known.
Derived(r, path) ==
  IF r.exc # "none" THEN r
  ELSE IF IsNone(r.victim_color)
    THEN r @@ [victim_name |-> None, adv_color |-> None, adv_name |-> None,
               adv_komi |-> None, adv_steps |-> None, adv_samples |-> None,
               adv_minus_victim_score |-> None,
               adv_minus_victim_score_wo_komi |-> None]
  \* lines 267-268: a victim_color argument that is not a key
  ELSE IF r.victim_color # B /\ r.victim_color # W THEN Raised("KeyError")
  \* line 298: komi * {...}[adv_color] with komi None
  ELSE IF IsNone(r.komi) THEN Raised("TypeError")
  ELSE
    LET adv_color == OtherColor(r.victim_color)
        adv_name == ByColor(adv_color, r.b_name, r.w_name)
        adv_komi == Times(r.komi, IF adv_color = W THEN 1 ELSE -1)
        margin == IF PyEq(adv_color, r.win_color) THEN r.win_score ELSE Neg(r.win_score)
    IN r @@
       [victim_name |-> ByColor(r.victim_color, r.b_name, r.w_name),
        adv_color |-> adv_color,
        adv_name |-> adv_name,
        adv_komi |-> adv_komi,
        adv_steps |->
          OrElse(extract_re(Pattern(<<"-", "s">>, "digit", <<"-">>), adv_name),
            OrElse(extract_re(Pattern(<<"t", "0", "-", "s">>, "digit", <<"-">>),
                              StrV(JoinSlash(LastThree(path)))),
                   IntV(0))),
        adv_samples |->
          OrElse(extract_re(Pattern(<<"-", "d">>, "digit", <<>>), adv_name), IntV(0)),
        adv_minus_victim_score |-> IF HasWinScore(r.win_score) THEN margin ELSE None,
        adv_minus_victim_score_wo_komi |->
          IF HasWinScore(r.win_score) THEN Minus(margin, adv_komi) ELSE None]

\* Lines 231-238: the training phase, from the parts of the path.
Training(parts) ==
  IF L_eval \in Range(parts) THEN StrV(L_eval)
  ELSE IF L_selfplay \in Range(parts) THEN StrV(<<"t", "r", "a", "i", "n">>)
  ELSE IF L_gatekeepersgf \in Range(parts) THEN StrV(<<"g", "a", "t", "i", "n", "g">>)
  ELSE None

\* Lines 367-388: the four pass-count fields.
PassInfo(sgf_str, board_size, adv_color) ==
  LET num_b_pass ==
        PassCount(sgf_str, board_size, num_b_pass_pattern, <<"B", "[", "t", "t", "]">>)
      num_w_pass ==
        PassCount(sgf_str, board_size, num_w_pass_pattern, <<"W", "[", "t", "t", "]">>)
  IN [num_b_pass |-> num_b_pass,
      num_w_pass |-> num_w_pass,
      num_adv_pass |-> IF PyEq(adv_color, B) THEN num_b_pass ELSE num_w_pass,
      num_victim_pass |-> IF PyEq(adv_color, B) THEN num_w_pass ELSE num_b_pass]

\* Lines 309-390: the record returned.
Assembled(d, path, line_number, sgf_str, fast_parse) ==
  IF d.exc # "none" THEN d
  ELSE
    LET parsed_info ==
          [b_name |-> d.b_name,
           w_name |-> d.w_name,
           victim_color |-> d.victim_color,
           victim_name |-> d.victim_name,
           adv_color |-> d.adv_color,
           adv_name |-> d.adv_name,
           adv_steps |-> d.adv_steps,
           adv_samples |-> d.adv_samples,
           win_color |-> d.win_color,
           win_name |-> IF PyEq(d.win_color, B) THEN d.b_name ELSE d.w_name,
           lose_name |-> IF PyEq(d.win_color, B) THEN d.w_name ELSE d.b_name,
           adv_win |-> BoolV(PyEq(d.adv_color, d.win_color)),
           komi |-> d.komi,
           adv_komi |-> d.adv_komi,
           adv_minus_victim_score |-> d.adv_minus_victim_score,
           adv_minus_victim_score_wo_komi |-> d.adv_minus_victim_score_wo_komi,
           train_status |-> Training(path),
           board_size |-> d.board_size,
           num_moves |-> IntV(CountOccurrences(sgf_str, semicolon_pattern) - 1),
           is_resignation |-> BoolV(d.is_resignation),
           sgf_path |-> path,
           sgf_line |-> IntV(line_number)]
    IN Returned(IF fast_parse THEN parsed_info
                ELSE parsed_info @@ PassInfo(sgf_str, d.board_size, d.adv_color))

\* Lines 186-189: an argument left out takes the module's default.
OrDefault(substrings_arg, default) ==
  IF IsNone(substrings_arg) THEN default ELSE substrings_arg.v

parse_game_str_to_dict(path, line_number, sgf_str, fast_parse, victim_color, no_victim_okay, adversary_substrings, victim_substrings) ==
  CHOOSE outcome \in
    {Assembled(d, path, line_number, sgf_str, fast_parse) :
       d \in {Derived(r, path) :
         r \in {Resolved(s, victim_color, no_victim_okay,
                         OrDefault(adversary_substrings, DEFAULT_ADVERSARY_SUBSTRINGS),
                         OrDefault(victim_substrings, DEFAULT_VICTIM_SUBSTRINGS)) :
           s \in {Scored(e) : e \in {Extracted(sgf_str)}}}}} : TRUE

(***************************************************************************)
(* Inputs of a call: lines assembled from property values, and options.    *)
(***************************************************************************)
Absent == <<>>
Prop(tag, value) == IF value = Absent THEN <<>> ELSE tag \o <<"[">> \o value \o <<"]">>

N_adv100 == <<"a", "d", "v", "-", "s", "1", "0", "0", "-", "d", "5", "0">>
N_adv0 == <<"a", "d", "v", "-", "s", "0", "-", "d", "7">>
N_Bot == <<"B", "o", "t">>
N_kata == <<"k", "a", "t", "a">>
N_advbot == <<"a", "d", "v", "b", "o", "t">>

BlackNames == {N_adv100, N_adv0, N_Bot, N_kata, N_advbot, Absent}
WhiteNames == {N_adv0, N_Bot, N_kata}
BoardSizes == {Absent, <<"1", "9">>, <<"2", "5">>}
Results ==
  {Absent,
   <<"B", "+", "3", ".", "5">>,
   <<"W", "+", "R">>,
   <<"W", "+", "R", "e", "s", "i", "g", "n">>,
   <<"B", "+", "T">>,
   <<"w", " ", "2">>,
   <<"D", "+", "0">>}
Komis == {Absent, <<"6", ".", "5">>}
MoveLists ==
  {<<";", "B", "[", "t", "t", "]", ";", "W", "[", "]", ";", "B", "[", "]",
     ";", "W", "[", "t", "t", "]", ";", "B", "[", "t", "t", "]">>}
Paths ==
  {<<<<"g", ".", "s", "g", "f", "s">>>>,
   <<L_eval, <<"t", "0", "-", "s", "5", "0", "0", "-", "d", "1">>, <<"g", ".", "s", "g", "f">>>>}

Line(sz, pb, pw, re, km, moves) ==
  <<"(", ";">> \o Prop(<<"S", "Z">>, sz) \o Prop(<<"P", "B">>, pb)
    \o Prop(<<"P", "W">>, pw) \o Prop(<<"R", "E">>, re) \o Prop(<<"K", "M">>, km)
    \o moves \o <<")">>

Lines ==
  {Line(sz, pb, pw, re, km, moves) :
     sz \in BoardSizes, pb \in BlackNames, pw \in WhiteNames,
     re \in Results, km \in Komis, moves \in MoveLists}

\* (victim_color, adversary_substrings) of a call; victim_substrings is left to
\* its default.
RoleArgs ==
  {<<None, None>>, <<None, ListV(<<<<"A", "d", "v">>>>)>>, <<B, None>>, <<W, None>>}

(***************************************************************************)
(* Inputs of a batch: files of lines, each line ending in a newline.       *)
(***************************************************************************)
BatchLines ==
  {<<"P", "B", "[", "a", "d", "v", "]", "P", "W", "[", "b", "o", "t", "]",
     "K", "M", "[", "7", "]", "\n">>,
   <<"P", "B", "[", "x", "]", "P", "W", "[", "y", "]", "\n">>}

MaxFiles == 2
MaxLines == 2

FileContents == UNION {[1..n -> BatchLines] : n \in 0..MaxLines}

\* The path of the k-th file of a batch, as its parts.
FilePath(k) == <<<<"f">> \o NatToStr(k) \o <<".", "s", "g", "f", "s">>>>

\* (fast_parse, no_victim_okay) of a batch call: fast_parse=True as prepare_data.py
\* passes it, no_victim_okay at its default and set.
BatchOptionArgs == {<<TRUE, FALSE>>, <<TRUE, TRUE>>}
ProcessesArgs == {0, 2}

VARIABLES
  pc,            \* "called", "returned" or "raised"; "idle" outside a single call
  args,          \* the arguments of the call of parse_game_str_to_dict
  parsed_info,   \* the record it returned
  exception,     \* the exception it raised, "none" for none
  batch_pc,      \* "called", "mapping", "returned" or "raised"; "idle" outside a batch
  batch_args,    \* the arguments of the call of read_and_parse_all_files
  files,         \* files[k]: the lines of the file at paths[k]
  pool_size,     \* the number of worker processes of the pool
  task,          \* task[k]: "pending", "running", "done" or "failed"
  results,       \* the result list pool.map fills, one slot per path
  arrival,       \* the tasks in the order their results reached the parent
  map_exception, \* the first exception a task raised, "none" for none
  parsed_games   \* the list read_and_parse_all_files returned

single_vars == <<pc, args, parsed_info, exception>>
batch_vars ==
  <<batch_pc, batch_args, files, pool_size, task, results, arrival, map_exception,
    parsed_games>>
vars == <<single_vars, batch_vars>>

NoBatch ==
  /\ batch_pc = "idle"
  /\ batch_args = <<>>
  /\ files = <<>>
  /\ pool_size = 0
  /\ task = <<>>
  /\ results = <<>>
  /\ arrival = <<>>
  /\ map_exception = "none"
  /\ parsed_games = None

NoSingleCall ==
  /\ pc = "idle"
  /\ args = <<>>
  /\ parsed_info = <<>>
  /\ exception = "none"

Init ==
  /\ pc = "called"
  /\ \E path \in Paths, sgf_str \in Lines, fast_parse \in BOOLEAN,
        role \in RoleArgs, no_victim_okay \in BOOLEAN :
       args = [path |-> path, line_number |-> 1, sgf_str |-> sgf_str,
               fast_parse |-> fast_parse, victim_color |-> role[1],
               no_victim_okay |-> no_victim_okay,
               adversary_substrings |-> role[2], victim_substrings |-> None]
  /\ parsed_info = <<>>
  /\ exception = "none"
  /\ NoBatch

Outcome ==
  parse_game_str_to_dict(args.path, args.line_number, args.sgf_str, args.fast_parse,
                         args.victim_color, args.no_victim_okay,
                         args.adversary_substrings, args.victim_substrings)

\* One call of parse_game_str_to_dict, to its return or to the exception it raises.
Parse ==
  /\ pc = "called"
  /\ \E outcome \in {Outcome} :
       /\ pc' = IF outcome.exc = "none" THEN "returned" ELSE "raised"
       /\ parsed_info' = outcome.info
       /\ exception' = outcome.exc
  /\ UNCHANGED <<args, batch_vars>>

Next == Parse

Spec == Init /\ [][Next]_vars

(***************************************************************************)
(* read_and_parse_file and read_and_parse_all_files                        *)
(***************************************************************************)
Whitespace == {" ", "\n", "\t", "\r"}

\* str.strip()
Strip(s) ==
  LET inked == {k \in 1..Len(s) : s[k] \notin Whitespace}
  IN IF inked = {} THEN <<>>
     ELSE SubSeq(s, CHOOSE k \in inked : \A j \in inked : k <= j,
                    CHOOSE k \in inked : \A j \in inked : j <= k)

\* A loop that skips a line whose parse raises and keeps the other records.
LoopResult_SkipFailing(outcomes) ==
  LET kept == SelectSeq(outcomes, LAMBDA o : o.exc = "none")
  IN Returned([k \in 1..Len(kept) |-> kept[k].info])

\* Lines 86-101: the loop appends the record of each line in turn; the first line
\* whose parse raises ends the call with that exception.
LoopResult(outcomes) ==
  LET failing == {k \in 1..Len(outcomes) : outcomes[k].exc # "none"}
  IN IF failing # {}
       THEN Raised(outcomes[CHOOSE k \in failing : \A j \in failing : k <= j].exc)
       ELSE Returned([k \in 1..Len(outcomes) |-> outcomes[k].info])

\* Lines 81-84: an argument left out takes the module's default list.
ListOrDefault(substrings_arg, default) ==
  IF IsNone(substrings_arg) THEN ListV(default) ELSE substrings_arg

read_and_parse_file(path, lines, fast_parse, victim_color, no_victim_okay, adversary_substrings, victim_substrings) ==
  CHOOSE result \in
    {LoopResult(outcomes) :
       outcomes \in
         {[k \in 1..Len(lines) |->
             parse_game_str_to_dict(
               path, k, Strip(lines[k]), fast_parse, victim_color, no_victim_okay,
               ListOrDefault(adversary_substrings, DEFAULT_ADVERSARY_SUBSTRINGS),
               ListOrDefault(victim_substrings, DEFAULT_VICTIM_SUBSTRINGS))]}} : TRUE

DefaultProcessCap == 128

Min(a, b) == IF a <= b THEN a ELSE b
Max(a, b) == IF a >= b THEN a ELSE b

\* The size of the pool: max(processes, 1), processes replaced when falsy.
PoolSize(processes, n_paths) ==
  Max(IF processes = 0 THEN Min(DefaultProcessCap, n_paths \div 2) ELSE processes, 1)

\* Results stored in the order they arrive, as imap_unordered would yield them.
StoreResult_AsCompleted(slots, order, k, games) ==
  [slots EXCEPT ![Len(order) + 1] = ListV(games)]

\* pool.map puts the result of the k-th task in the k-th slot of its list.
StoreResult(slots, order, k, games) == [slots EXCEPT ![k] = ListV(games)]

\* list(chain.from_iterable(parsed_games))
RECURSIVE Chain(_)
Chain(lists) == IF Len(lists) = 0 THEN <<>> ELSE Head(lists).v \o Chain(Tail(lists))

InitBatch ==
  /\ NoSingleCall
  /\ batch_pc = "called"
  /\ \E n \in 0..MaxFiles, options \in BatchOptionArgs, processes \in ProcessesArgs :
       /\ batch_args = [paths |-> [k \in 1..n |-> FilePath(k)],
                        fast_parse |-> options[1], processes |-> processes,
                        no_victim_okay |-> options[2],
                        adversary_substrings |-> None, victim_substrings |-> None]
       /\ files \in [1..n -> FileContents]
  /\ pool_size = 0
  /\ task = <<>>
  /\ results = <<>>
  /\ arrival = <<>>
  /\ map_exception = "none"
  /\ parsed_games = None

NumPaths == Len(batch_args.paths)

\* Lines 113-128: the pool is created and pool.map submits one task per path.
StartMap ==
  /\ batch_pc = "called"
  /\ batch_pc' = "mapping"
  /\ pool_size' = PoolSize(batch_args.processes, NumPaths)
  /\ task' = [k \in 1..NumPaths |-> "pending"]
  /\ results' = [k \in 1..NumPaths |-> None]
  /\ UNCHANGED <<single_vars, batch_args, files, arrival, map_exception, parsed_games>>

\* A free worker takes the next task of the queue.
TaskStart(k) ==
  /\ batch_pc = "mapping"
  /\ task[k] = "pending"
  /\ \A j \in 1..(k - 1) : task[j] # "pending"
  /\ Cardinality({j \in 1..NumPaths : task[j] = "running"}) < pool_size
  /\ task' = [task EXCEPT ![k] = "running"]
  /\ UNCHANGED <<single_vars, batch_pc, batch_args, files, pool_size, results, arrival,
                 map_exception, parsed_games>>

\* The worker runs read_and_parse_file on the path to its end; the list or the
\* exception reaches the parent.
TaskFinish(k) ==
  /\ batch_pc = "mapping"
  /\ task[k] = "running"
  /\ \E outcome \in
          {read_and_parse_file(batch_args.paths[k], files[k], batch_args.fast_parse, None,
                               batch_args.no_victim_okay, batch_args.adversary_substrings,
                               batch_args.victim_substrings)} :
       IF outcome.exc = "none"
         THEN /\ task' = [task EXCEPT ![k] = "done"]
              /\ results' = StoreResult(results, arrival, k, outcome.info)
              /\ UNCHANGED map_exception
         ELSE /\ task' = [task EXCEPT ![k] = "failed"]
              /\ map_exception' =
                   IF map_exception = "none" THEN outcome.exc ELSE map_exception
              /\ UNCHANGED results
  /\ arrival' = Append(arrival, k)
  /\ UNCHANGED <<single_vars, batch_pc, batch_args, files, pool_size, parsed_games>>

AllTasksOver == \A k \in 1..NumPaths : task[k] \in {"done", "failed"}

\* Lines 128-129: every task succeeded; the lists are chained and returned.
MapReturns ==
  /\ batch_pc = "mapping"
  /\ AllTasksOver
  /\ map_exception = "none"
  /\ batch_pc' = "returned"
  /\ parsed_games' = ListV(Chain(results))
  /\ UNCHANGED <<single_vars, batch_args, files, pool_size, task, results, arrival,
                 map_exception>>

\* Line 128: a task raised; pool.map raises its exception in the parent.
MapRaises ==
  /\ batch_pc = "mapping"
  /\ AllTasksOver
  /\ map_exception # "none"
  /\ batch_pc' = "raised"
  /\ UNCHANGED <<single_vars, batch_args, files, pool_size, task, results, arrival,
                 map_exception, parsed_games>>

NextBatch ==
  \/ StartMap
  \/ \E k \in 1..NumPaths : TaskStart(k)
  \/ \E k \in 1..NumPaths : TaskFinish(k)
  \/ MapReturns
  \/ MapRaises

SpecBatch == InitBatch /\ [][NextBatch]_vars

(***************************************************************************)
(* What the claims read off a finished call                                *)
(***************************************************************************)
In_b_name == extract_prop(<<"P", "B">>, StrV(args.sgf_str))
In_w_name == extract_prop(<<"P", "W">>, StrV(args.sgf_str))
In_result == extract_prop(<<"R", "E">>, StrV(args.sgf_str))
In_board_size == extract_prop(<<"S", "Z">>, StrV(args.sgf_str))
In_adversary_substrings ==
  IF IsNone(args.adversary_substrings) THEN DEFAULT_ADVERSARY_SUBSTRINGS
  ELSE args.adversary_substrings.v
In_victim_substrings ==
  IF IsNone(args.victim_substrings) THEN DEFAULT_VICTIM_SUBSTRINGS
  ELSE args.victim_substrings.v

\* The name contains one of the substrings, letter case ignored on both sides.
HasIgnoringCase(name, substrings) ==
  name.t = "str" /\ \E x \in Range(substrings) : Contains(Lower(name.v), Lower(x))

\* The name, lower-cased, contains one of the substrings as given.
HasAsGiven(name, substrings) ==
  name.t = "str" /\ \E x \in Range(substrings) : Contains(Lower(name.v), x)

\* The victim color is supplied, or exactly one color is the victim by the names.
ResolvedFromNames ==
  LET black == HasAsGiven(In_b_name, In_victim_substrings)
                 \/ HasAsGiven(In_w_name, In_adversary_substrings)
      white == HasAsGiven(In_w_name, In_victim_substrings)
                 \/ HasAsGiven(In_b_name, In_adversary_substrings)
  IN In_b_name.t = "str" /\ In_w_name.t = "str" /\ black # white
VictimResolved == ~IsNone(args.victim_color) \/ ResolvedFromNames

\* The trailing token of the RE result, and whether it is a number.
In_token == WinScoreStr(In_result)
ResignationResult == In_result.t = "str" /\ (In_token = L_R \/ In_token = L_Resign)
NumericWinScore == In_result.t = "str" /\ IsFloatText(In_token)

\* C1: with no victim_color supplied, the record's victim_color is "b" when only
\* black-is-victim holds, "w" when only white-is-victim holds and null otherwise,
\* where black-is-victim is (b_name contains a victim substring, case-insensitively)
\* or (w_name contains an adversary substring), and white-is-victim symmetrically.
C1_VictimColorByNames ==
  (pc = "returned" /\ IsNone(args.victim_color)) =>
    LET black == HasIgnoringCase(In_b_name, In_victim_substrings)
                   \/ HasIgnoringCase(In_w_name, In_adversary_substrings)
        white == HasIgnoringCase(In_w_name, In_victim_substrings)
                   \/ HasIgnoringCase(In_b_name, In_adversary_substrings)
    IN parsed_info.victim_color =
         IF black /\ ~white THEN B ELSE IF white /\ ~black THEN W ELSE None

\* C2: the call fails with the missing-victim error exactly when the victim color
\* is neither supplied nor resolved and no_victim_okay is false; with no_victim_okay
\* true and the color unresolved it returns a record with a null victim_color; no
\* record with a null victim_color is returned while no_victim_okay is false.
C2_MissingVictimError ==
  pc # "called" =>
    /\ (pc = "raised" /\ exception = "AssertionError")
         <=> (~VictimResolved /\ ~args.no_victim_okay)
    /\ (~VictimResolved /\ args.no_victim_okay)
         => (pc = "returned" /\ IsNone(parsed_info.victim_color))
    /\ (pc = "returned" /\ ~args.no_victim_okay) => ~IsNone(parsed_info.victim_color)

\* C3: a call whose victim color is resolved never raises on malformed or missing
\* numeric fields: it returns a record.
C3_NumericFieldsNeverRaise ==
  (pc # "called" /\ VictimResolved) => pc = "returned"

\* C4 as stated: in every returned record adv_minus_victim_score is non-null iff a
\* numeric win score was extracted from RE, for every option combination; a
\* resignation yields a null score and is_resignation = true.
C4_ScoreIffNumeric ==
  pc = "returned" =>
    /\ ~IsNone(parsed_info.adv_minus_victim_score) <=> NumericWinScore
    /\ ResignationResult =>
         (IsNone(parsed_info.adv_minus_victim_score) /\ parsed_info.is_resignation = BoolV(TRUE))

\* C4 as amended: in every returned record adv_minus_victim_score is non-null iff a
\* numeric win score was extracted from RE and the record's victim color is
\* non-null; a resignation yields a null score and is_resignation = true.
C4_ScoreIffNumericAndVictim ==
  pc = "returned" =>
    /\ ~IsNone(parsed_info.adv_minus_victim_score)
         <=> (NumericWinScore /\ ~IsNone(parsed_info.victim_color))
    /\ ResignationResult =>
         (IsNone(parsed_info.adv_minus_victim_score) /\ parsed_info.is_resignation = BoolV(TRUE))

\* A record with a numeric win score, a victim and so a score margin; one with a
\* resignation.
C4_Witness ==
  /\ pc = "returned"
  /\ NumericWinScore
  /\ ~IsNone(parsed_info.victim_color)
  /\ parsed_info.adv_minus_victim_score = FloatV(-35)

\* C5: in every returned record victim_color and adv_color are both null or are
\* "b" and "w", one each, and victim_name and adv_name are then the names of the
\* players of those colors.
C5_ComplementaryColors ==
  pc = "returned" =>
    LET vc == parsed_info.victim_color
        ac == parsed_info.adv_color
    IN \/ IsNone(vc) /\ IsNone(ac)
       \/ /\ {vc, ac} = {B, W}
          /\ parsed_info.victim_name = (IF vc = B THEN In_b_name ELSE In_w_name)
          /\ parsed_info.adv_name = (IF ac = B THEN In_b_name ELSE In_w_name)

\* A record whose victim is white and whose adversary is black, by the names.
C5_Witness ==
  /\ pc = "returned"
  /\ IsNone(args.victim_color)
  /\ parsed_info.victim_color = W
  /\ parsed_info.adv_color = B
  /\ parsed_info.adv_name = StrV(N_adv100)

\* The parse of line j of the file at paths[k], with the options of the batch.
LineOutcome(k, j) ==
  parse_game_str_to_dict(batch_args.paths[k], j, Strip(files[k][j]), batch_args.fast_parse,
                         None, batch_args.no_victim_okay, batch_args.adversary_substrings,
                         batch_args.victim_substrings)

\* The number of lines in the files before the k-th.
RECURSIVE LinesBefore(_)
LinesBefore(k) == IF k <= 1 THEN 0 ELSE LinesBefore(k - 1) + Len(files[k - 1])

BatchOver == batch_pc \in {"returned", "raised"}
SomeLineFails ==
  \E k \in 1..NumPaths : \E j \in 1..Len(files[k]) : LineOutcome(k, j).exc # "none"

\* C6: whatever the order in which the workers complete, the list returned by
\* read_and_parse_all_files is the concatenation of the per-file results in the order
\* of the path list, and within a file the records are in line order, the record of
\* line j carrying sgf_line = j.
C6_ConcatenationInPathOrder ==
  batch_pc = "returned" =>
    /\ parsed_games.t = "list"
    /\ Len(parsed_games.v) = LinesBefore(NumPaths + 1)
    /\ \A k \in 1..NumPaths : \A j \in 1..Len(files[k]) :
         LET record == parsed_games.v[LinesBefore(k) + j]
         IN /\ record = LineOutcome(k, j).info
            /\ record.sgf_path = batch_args.paths[k]
            /\ record.sgf_line = IntV(j)

\* A batch of two files whose second file completed first: the two records of the
\* first file still come first, then the record of the second.
C6_Witness ==
  /\ batch_pc = "returned"
  /\ arrival = <<2, 1>>
  /\ Len(files[1]) = 2
  /\ Len(files[2]) = 1
  /\ parsed_games.v[2].sgf_path = FilePath(1)
  /\ parsed_games.v[2].sgf_line = IntV(2)
  /\ parsed_games.v[3].sgf_path = FilePath(2)
  /\ parsed_games.v[3].sgf_line = IntV(1)

\* C7: if the parse of any line of any file fails, the batch call fails and returns
\* no records: never a list that omits or truncates the records of the failing file
\* or of its sibling files.
C7_AnyLineFailureFailsBatch ==
  BatchOver => ((batch_pc = "raised" /\ parsed_games = None) \/ ~SomeLineFails)

\* The second line of the second file fails after its first line and the whole
\* first file parsed: the call raises and returns nothing.
C7_Witness ==
  /\ batch_pc = "raised"
  /\ NumPaths = 2
  /\ task = <<"done", "failed">>
  /\ Len(files[2]) = 2
  /\ LineOutcome(2, 1).exc = "none"
  /\ LineOutcome(2, 2).exc = "AssertionError"
  /\ map_exception = "AssertionError"
  /\ parsed_games = None

\* C8: without fast_parse, num_b_pass (num_w_pass) is a plain integer, the number of
\* B[] (W[]) plus, only when the board size is an integer <= 19, of B[tt] (W[tt]);
\* num_adv_pass and num_victim_pass are the counts of the adversary's and the
\* victim's color; with fast_parse none of the four fields is present.
C8_PassCountsPlainIntegers ==
  pc = "returned" =>
    IF args.fast_parse
      THEN DOMAIN parsed_info
             \cap {"num_b_pass", "num_w_pass", "num_adv_pass", "num_victim_pass"} = {}
      ELSE LET tt_counts == In_board_size.t = "int" /\ In_board_size.v <= 19
               blacks == CountOccurrences(args.sgf_str, <<"B", "[", "]">>)
                           + (IF tt_counts
                                THEN CountOccurrences(args.sgf_str, <<"B", "[", "t", "t", "]">>)
                                ELSE 0)
               whites == CountOccurrences(args.sgf_str, <<"W", "[", "]">>)
                           + (IF tt_counts
                                THEN CountOccurrences(args.sgf_str, <<"W", "[", "t", "t", "]">>)
                                ELSE 0)
               adv_is_black == parsed_info.adv_color = B
           IN /\ PyEq(parsed_info.num_b_pass, IntV(blacks))
              /\ PyEq(parsed_info.num_w_pass, IntV(whites))
              /\ ~IsNone(parsed_info.adv_color) =>
                   /\ PyEq(parsed_info.num_adv_pass,
                           IntV(IF adv_is_black THEN blacks ELSE whites))
                   /\ PyEq(parsed_info.num_victim_pass,
                           IntV(IF adv_is_black THEN whites ELSE blacks))

\* C9: in every returned record with a non-null win_color, whatever its value,
\* win_name is the name of the player of that color and lose_name the name of the
\* other player; adv_win is true only when the adversary's color is win_color.
C9_WinnerNamesFollowWinColor ==
  (pc = "returned" /\ ~IsNone(parsed_info.win_color)) =>
    LET wc == parsed_info.win_color
        winner == IF wc = B THEN In_b_name ELSE IF wc = W THEN In_w_name ELSE None
        loser == IF wc = B THEN In_w_name ELSE IF wc = W THEN In_b_name ELSE None
    IN /\ parsed_info.win_name = winner
       /\ parsed_info.lose_name = loser
       /\ parsed_info.adv_win = BoolV(TRUE) => PyEq(parsed_info.adv_color, wc)

\* C10: with the victim color resolved, adv_steps is the number captured by
\* -s(\d+)- in the adversary name whenever the name matches (a captured 0 included),
\* the number captured by t0-s(\d+)- in the last three path segments only when the
\* name does not match, and 0 when neither matches; adv_samples is the number after
\* -d in the adversary name, else 0.
C10_StepsOrderedByMatch ==
  (pc = "returned" /\ ~IsNone(parsed_info.victim_color)) =>
    LET name == PyStr(parsed_info.adv_name)
        in_name == Search(Pattern(<<"-", "s">>, "digit", <<"-">>), name)
        in_path == Search(Pattern(<<"t", "0", "-", "s">>, "digit", <<"-">>),
                          JoinSlash(LastThree(args.path)))
        samples == Search(Pattern(<<"-", "d">>, "digit", <<>>), name)
    IN /\ parsed_info.adv_steps =
            IF in_name.found THEN IntV(DecimalValue(in_name.group))
            ELSE IF in_path.found THEN IntV(DecimalValue(in_path.group))
            ELSE IntV(0)
       /\ parsed_info.adv_samples =
            IF samples.found THEN IntV(DecimalValue(samples.group)) ELSE IntV(0)
=============================================================================
